---- MODULE Spec2Model ----
(***************************************************************************)
(* E-Book Librarian firmware (src/main/main.c): the provisioning sequence  *)
(* of app_main/init_wifi, the Wi-Fi event handler, the removable-device    *)
(* notifier and the file-transfer engine served by the HTTP server.        *)
(*                                                                         *)
(* Scheduling.  app_main runs the boot sequence; the default event loop    *)
(* task runs wifi_event_handler; the MSC driver task runs msc_event_cb;    *)
(* start_webserver calls httpd_start once, and the server it creates runs  *)
(* every registered URI handler synchronously in its own task(s), one      *)
(* request at a time per task.  transfer_file_handler calls copy_file      *)
(* inline, so the copy loop runs inside the serving task.  A request that  *)
(* a client sends while every serving task is busy waits in its socket     *)
(* (pending) until a task is idle again; a request that finds a task idle  *)
(* is dispatched at once.                                                  *)
(***************************************************************************)
EXTENDS Integers, Sequences, FiniteSets, TLC

\* ---------------------------------------------------------------- bounds
MaxChunks == 2        \* largest source file, in copy buffers
PartialChunk == 1000  \* size of a last, partly filled buffer
MaxPending == 1       \* requests waiting in sockets at one time
MaxEvents == 2        \* events queued in the default event loop
JoinCap == 3          \* the count of join attempts saturates here

\* ------------------------------------------------------ program constants
COPY_BUFFER == 4096   \* malloc(4096) / fread(buffer, 1, 4096, ...)

\* Tasks that run URI handlers: one httpd_start call, one server task.
HTTPD_TASKS_two == 1 + 1

HTTPD_TASKS == 1

Tasks == 1..HTTPD_TASKS

Min(a, b) == IF a < b THEN a ELSE b
Max(a, b) == IF a > b THEN a ELSE b

\* ------------------------------------------------------------ data model
Roots == {"sd", "usb"}
Names == {"a.epub", "b.epub"}
Paths == Roots \X Names
Absent == 0 - 1

\* An empty file, one that ends in a partly filled buffer, one that ends
\* on a buffer boundary.
FileSizes ==
    {0, (MaxChunks - 1) * COPY_BUFFER + PartialChunk, MaxChunks * COPY_BUFFER}

\* led_state_t
LED_STATE_INIT == "LED_STATE_INIT"
LED_STATE_IDLE == "LED_STATE_IDLE"
LED_STATE_CONNECTED == "LED_STATE_CONNECTED"
LED_STATE_TRANSFER == "LED_STATE_TRANSFER"
LED_STATE_ERROR == "LED_STATE_ERROR"
LED_STATE_SETUP == "LED_STATE_SETUP"
LED_STATE_EJECT == "LED_STATE_EJECT"

WIFI_CONNECTED_BIT == "WIFI_CONNECTED_BIT"
WIFI_FAIL_BIT == "WIFI_FAIL_BIT"

ESP_OK == "ESP_OK"
ESP_FAIL == "ESP_FAIL"
ESP_ERR_NVS_NOT_FOUND == "ESP_ERR_NVS_NOT_FOUND"
ESP_ERR_NVS_INVALID_LENGTH == "ESP_ERR_NVS_INVALID_LENGTH"

MSG_NONE == ""
MSG_SRC == "Failed to open source file."
MSG_DST == "Failed to open destination file."
MSG_MEM == "Memory allocation failed."
MSG_CANCEL == "Transfer cancelled."
MSG_WRITE == "Write error on destination."
MSG_DONE == "File transfer complete!"
MSG_BUSY == "A file transfer is already in progress."

\* Requests a client can send to the main application's server.
\* body: what httpd_req_recv / cJSON_Parse make of the POST body.
\* job: what the transfer job was doing when the request was sent
\* ("Idle", "Copying": Active with copy_file running, or "Resolved": still
\* Active, copy_file has returned).
Req(uri, s, d, f, b) ==
    [uri |-> uri, source |-> s, destination |-> d, filename |-> f,
     body |-> b, job |-> "Idle"]

TransferRequests ==
    {Req("/transfer-file", s, d, "a.epub", "ok") : s \in Roots, d \in Roots}
      \cup {Req("/transfer-file", "sd", "usb", "b.epub", "ok")}
      \cup {Req("/transfer-file", "-", "-", "-", b) :
                b \in {"recv_fail", "not_json", "null_field"}}

OtherRequests ==
    {Req(u, "-", "-", "-", "-") :
        u \in {"/transfer-cancel", "/transfer-progress", "/status"}}

Requests == TransferRequests \cup OtherRequests

\* The requests clients send while the server is busy: the same transfer
\* again, a cancel and the two polls.
BusyRequests ==
    {Req("/transfer-file", "sd", "usb", "a.epub", "ok")} \cup OtherRequests

NoReq == Req("-", "-", "-", "-", "-")

NoSnap == [filename |-> "-", bytes_transferred |-> 0, total_bytes |-> 0]

\* query, opened, list: of /list-files, the type parameter, the mount point
\* given to opendir and the names in the array sent.
NoRsp ==
    [uri |-> "-", job |-> "Idle", status |-> 0, success |-> FALSE,
     message |-> MSG_NONE, active |-> FALSE, snap |-> NoSnap,
     query |-> "-", opened |-> "-", list |-> {}]

\* GET /list-files: no query string, a query without type, and three
\* values of type.
ListRequests ==
    {Req("/list-files", "-", "-", "-", q) :
        q \in {"no_query", "no_type", "sd", "usb", "other"}}

IdleTask ==
    [pc |-> "idle", req |-> NoReq, res |-> "-", pos |-> 0, bytes_read |-> 0,
     src_ok |-> FALSE, dst_ok |-> FALSE, rsp |-> NoRsp]

\* --------------------------------------------- configuration channels
\* A network name of 32 bytes and a secret of 64 bytes: the longest the
\* data model allows.
SSID_MAX == "0123456789abcdef0123456789abcdef"
PASS_MAX ==
    "0123456789abcdef0123456789abcdef0123456789abcdef0123456789abcdef"

\* strlen of the strings of the model.
strlen(str) ==
    IF str = "" THEN 0
    ELSE IF str = "cafe" THEN 4
    ELSE IF str = "home" THEN 4
    ELSE IF str = "homepw" THEN 6
    ELSE IF str = SSID_MAX THEN 32
    ELSE IF str = PASS_MAX THEN 64
    ELSE 1

\* char ssid[32]; char password[64]; in init_wifi and in
\* save_credentials_post_handler
SSID_BUF == 32
PASS_BUF == 64

\* What a buffer that was never written may hold.
Junk == {"", "<stack>"}

\* Network names and secrets a submitter may send.
Ssids == {"cafe", SSID_MAX}
Secrets == {PASS_MAX, ""}

\* Where the persistence layer may reject save_wifi_credentials.
NvsFaults == {"none", "nvs_open", "set_ssid", "set_pass", "nvs_commit"}

\* gatt_db[IDX_CHAR_VAL_SAVE].attr_control: the stack answers a write
\* request itself, before the application's write event is handled.
SAVE_ATTR_CONTROL_by_app == "ESP_GATT_RSP_BY_APP"

SAVE_ATTR_CONTROL == "ESP_GATT_AUTO_RSP"

\* GATT writes: the name, the secret, and the commit trigger (one byte).
BleWrites ==
    {[attr |-> "IDX_CHAR_VAL_SSID", value |-> v] : v \in Ssids}
      \cup {[attr |-> "IDX_CHAR_VAL_PASS", value |-> v] : v \in Secrets}
      \cup {[attr |-> "IDX_CHAR_VAL_SAVE", value |-> v] : v \in {"0x00", "0x01"}}

\* wifi_ssid, wifi_password (zeroed statics), the GATT task's position, and
\* whether the response to the last write request was sent.
IdleBle ==
    [wifi_ssid |-> "", wifi_password |-> "", pc |-> "idle", acked |-> FALSE]

\* Requests to the captive portal.  form: what httpd_req_recv and
\* httpd_query_key_value make of a POST body.
PortalReq(m, u, f, s, p) ==
    [method |-> m, uri |-> u, form |-> f, ssid |-> s, password |-> p]

PortalRequests ==
    {PortalReq(m, u, "-", "", "") :
        m \in {"GET", "POST"},
        u \in {"/", "/save-credentials", "/generate_204"}}
      \cup {PortalReq("POST", "/save-credentials", "ok", s, p) :
                s \in Ssids, p \in Secrets}
      \cup {PortalReq("POST", "/save-credentials", f, "", "") :
                f \in {"too_long", "recv_timeout", "recv_fail"}}

NoPortalRsp == [method |-> "-", uri |-> "-", status |-> 0, location |-> "-"]

PortalRsp(r, status) ==
    [method |-> r.method, uri |-> r.uri, status |-> status, location |-> "-"]

IdlePortal == [pc |-> "idle", rsp |-> NoPortalRsp]

NoSave == [channel |-> "-", err |-> "-"]

\* ------------------------------------------------------------ indicator
\* What led_status_task puts on the strip for each state; the default
\* branch (LED_STATE_INIT) only sleeps and leaves the strip as it is.
FRAME_OFF == "off"
FRAME_EJECT == "green blink"

Frame(state, shown) ==
    IF state = LED_STATE_IDLE THEN "breathing white"
    ELSE IF state = LED_STATE_SETUP THEN "pulsing purple"
    ELSE IF state = LED_STATE_CONNECTED THEN "solid green"
    ELSE IF state = LED_STATE_TRANSFER THEN "pulsing white"
    ELSE IF state = LED_STATE_ERROR THEN "solid red"
    ELSE IF state = LED_STATE_EJECT THEN FRAME_EJECT
    ELSE shown

\* for (int j = 0; j < 2; j++)
BLINKS == 2

\* uint8_t brightness: arithmetic is modulo 2^8.
UINT8 == 256

\* The breathing and pulsing cases: the step of the counter, the level at
\* which it turns down and the level at which it turns up again.
\* (0, 0, 0) for the cases that do not touch the counter.
PatternOf(state) ==
    IF state = LED_STATE_IDLE THEN [step |-> 1, top |-> 80, bottom |-> 5]
    ELSE IF state = LED_STATE_SETUP THEN [step |-> 2, top |-> 100, bottom |-> 0]
    ELSE IF state = LED_STATE_TRANSFER
    THEN [step |-> 5, top |-> 150, bottom |-> 0]
    ELSE [step |-> 0, top |-> 0, bottom |-> 0]

\* if (increasing) { brightness += step; if (brightness >= top) increasing =
\* false; } else { brightness -= step; if (brightness <= bottom) increasing =
\* true; }
Pattern(state, b, inc) ==
    LET p == PatternOf(state)
        up == (b + p.step) % UINT8
        down == (b + UINT8 - p.step) % UINT8
    IN  IF p.step = 0 THEN [brightness |-> b, increasing |-> inc]
        ELSE IF inc
        THEN [brightness |-> up, increasing |-> ~(up >= p.top)]
        ELSE [brightness |-> down, increasing |-> down <= p.bottom]

\* init_led_strip clears the strip; the task starts at its switch with
\* brightness = 0 and increasing = true.
IdleLedTask ==
    [pc |-> "switch", snap |-> LED_STATE_INIT, j |-> 0, frame |-> FRAME_OFF,
     brightness |-> 0, increasing |-> TRUE]

VARIABLES
    nvs,                    \* the "wifi_creds" namespace in flash
    main_pc,                \* app_main's position
    load_err,               \* what load_wifi_credentials returned this boot
    loaded,                 \* init_wifi's ssid and password buffers after it
    wifi_mode,              \* "off", "sta" or "ap": the started Wi-Fi mode
    wifi_regs,              \* instances of wifi_event_handler on WIFI_EVENT
    ip_regs,                \* instances on IP_EVENT_STA_GOT_IP
    evq,                    \* the default event loop's queue
    wifi_event_group,       \* bits set in the event group
    g_wifi_configured,
    radio,                  \* the station's link, owned by the radio stack
    join_attempts,          \* calls of esp_wifi_connect this boot
    server,                 \* "none", "main" or "portal"
    pending,                \* requests sent by clients, not yet dispatched
    httpd,                  \* per serving task: handler position and locals
    g_transfer_progress,
    g_cancel_transfer,
    g_led_state,
    ebook_reader_connected,
    usb_attached,           \* a device is physically plugged in
    usb_mounted,            \* /usb is mounted
    fs,                     \* size of every file, Absent if there is none
    nvs_str,                \* the strings stored under the ssid and password keys
    ble,                    \* wifi_ssid, wifi_password and the GATT task's position
    portal,                 \* the captive portal's serving task
    save_err,               \* the last call of save_wifi_credentials: channel, result
    led                     \* led_status_task: position, blink count, frame shown

prov_vars ==
    <<nvs, main_pc, load_err, loaded, wifi_mode, wifi_regs, ip_regs, evq,
      wifi_event_group, g_wifi_configured, radio, join_attempts, server>>

xfer_vars ==
    <<pending, httpd, g_transfer_progress, g_cancel_transfer, fs>>

usb_vars == <<ebook_reader_connected, usb_attached, usb_mounted>>

conf_vars == <<nvs_str, ble, portal, save_err>>

vars == <<prov_vars, xfer_vars, usb_vars, g_led_state, conf_vars, led>>

\* esp_restart or esp_deep_sleep_start has been called: no task runs.
Halted == main_pc \in {"restart", "deep_sleep"}

\* ------------------------------------------------------- credential store
\* The outcome of load_wifi_credentials: the namespace must open and the
\* ssid key must be read; a missing password is not an error.
load_wifi_credentials_ignoring_ssid(n) ==
    IF ~n.ns THEN ESP_ERR_NVS_NOT_FOUND ELSE ESP_OK

load_wifi_credentials(n) ==
    IF ~n.ns THEN ESP_ERR_NVS_NOT_FOUND
    ELSE IF ~n.ssid THEN ESP_ERR_NVS_NOT_FOUND
    ELSE ESP_OK

\* nvs_get_str(handle, key, out, &length): the stored string with its
\* terminator must fit into length bytes, else nothing is written to out.
Fits(str, length) == strlen(str) + 1 <= length

\* load_wifi_credentials with its buffers: the result and what the two
\* buffers hold after the call.  before is what they held, and still hold
\* where nvs_get_str wrote nothing.
NotLoaded == [ssid |-> "-", password |-> "-"]

load_wifi_credentials_into(n, v, ssid_len, pass_len, before) ==
    IF load_wifi_credentials(n) # ESP_OK
    THEN [err |-> load_wifi_credentials(n), buf |-> NotLoaded]
    ELSE IF ~Fits(v.ssid, ssid_len)
    THEN [err |-> ESP_ERR_NVS_INVALID_LENGTH, buf |-> NotLoaded]
    ELSE IF ~n.pass \/ ~Fits(v.pass, pass_len)
    THEN [err |-> ESP_OK,
          buf |-> [ssid |-> v.ssid, password |-> before]]
    ELSE [err |-> ESP_OK,
          buf |-> [ssid |-> v.ssid, password |-> v.pass]]

NvsStates ==
    {n \in [ns : BOOLEAN, ssid : BOOLEAN, pass : BOOLEAN] :
        ~n.ns => (~n.ssid /\ ~n.pass)}

\* ------------------------------------------------------------------ Init
Init ==
    /\ nvs \in NvsStates
    /\ main_pc = "init_wifi"
    /\ load_err = "-"
    /\ loaded = NotLoaded
    /\ wifi_mode = "off"
    /\ wifi_regs = 0
    /\ ip_regs = 0
    /\ evq = <<>>
    /\ wifi_event_group = {}
    /\ g_wifi_configured = FALSE
    /\ radio = "off"
    /\ join_attempts = 0
    /\ server = "none"
    /\ pending = {}
    /\ httpd = [t \in Tasks |-> IdleTask]
    /\ g_transfer_progress =
          [filename |-> "", bytes_transferred |-> 0, total_bytes |-> 0,
           active |-> FALSE, success |-> FALSE, error_msg |-> MSG_NONE]
    /\ g_cancel_transfer = FALSE
    /\ g_led_state = LED_STATE_INIT
    /\ ebook_reader_connected = FALSE
    /\ usb_attached = FALSE
    /\ usb_mounted = FALSE
    /\ \E s \in FileSizes :
          fs = [p \in Paths |->
                  IF p = <<"sd", "a.epub">> THEN s ELSE Absent]
    /\ nvs_str = [ssid |-> IF nvs.ssid THEN "home" ELSE "",
                  pass |-> IF nvs.pass THEN "homepw" ELSE ""]
    /\ ble = IdleBle
    /\ portal = IdlePortal
    /\ save_err = NoSave
    /\ led = IdleLedTask

\* ------------------------------------------------------- provisioning
\* wifi_event_handler, on the state it can touch.  st.connect counts the
\* calls of esp_wifi_connect the handler makes.
wifi_event_handler_retrying(event, st) ==
    IF event = "WIFI_EVENT_STA_START"
    THEN [st EXCEPT !.connect = @ + 1]
    ELSE IF event = "WIFI_EVENT_STA_DISCONNECTED"
    THEN [st EXCEPT !.connect = @ + 1]
    ELSE IF event = "IP_EVENT_STA_GOT_IP"
    THEN [st EXCEPT !.bits = @ \cup {WIFI_CONNECTED_BIT}]
    ELSE st

wifi_event_handler_reevaluating(event, st) ==
    IF event = "WIFI_EVENT_STA_START"
    THEN [st EXCEPT !.connect = @ + 1]
    ELSE IF event = "WIFI_EVENT_STA_DISCONNECTED"
    THEN [st EXCEPT !.bits = @ \cup {WIFI_FAIL_BIT}, !.configured = FALSE]
    ELSE IF event = "IP_EVENT_STA_GOT_IP"
    THEN [st EXCEPT !.bits = @ \cup {WIFI_CONNECTED_BIT}]
    ELSE st

wifi_event_handler(event, st) ==
    IF event = "WIFI_EVENT_AP_STACONNECTED" THEN st
    ELSE IF event = "WIFI_EVENT_AP_STADISCONNECTED" THEN st
    ELSE IF event = "WIFI_EVENT_STA_START"
    THEN [st EXCEPT !.connect = @ + 1]
    ELSE IF event = "WIFI_EVENT_STA_DISCONNECTED"
    THEN [st EXCEPT !.bits = @ \cup {WIFI_FAIL_BIT}]
    ELSE IF event = "IP_EVENT_STA_GOT_IP"
    THEN [st EXCEPT !.bits = @ \cup {WIFI_CONNECTED_BIT}]
    ELSE st

\* The handler is run once per registered instance.
RECURSIVE RunHandlers(_, _, _)
RunHandlers(k, event, st) ==
    IF k = 0 THEN st
    ELSE RunHandlers(k - 1, event, wifi_event_handler(event, st))

\* init_wifi up to esp_wifi_start of the station (or the skip of it).
init_wifi_load ==
    /\ main_pc = "init_wifi"
    /\ \E before \in Junk :
         LET l == load_wifi_credentials_into(nvs, nvs_str, SSID_BUF,
                                             PASS_BUF, before)
             err == l.err
         IN
         /\ load_err' = err
         /\ loaded' = l.buf
         /\ IF err = ESP_OK
            THEN /\ wifi_mode' = "sta"
                 /\ wifi_regs' = wifi_regs + 1
                 /\ ip_regs' = ip_regs + 1
                 /\ radio' = "idle"
                 /\ evq' = Append(evq, "WIFI_EVENT_STA_START")
                 /\ main_pc' = "wait_bits"
            ELSE /\ main_pc' = "ap_check"
                 /\ UNCHANGED <<wifi_mode, wifi_regs, ip_regs, radio, evq>>
    /\ UNCHANGED <<nvs, wifi_event_group, g_wifi_configured, join_attempts,
                   server, xfer_vars, usb_vars, g_led_state>>
    /\ UNCHANGED conf_vars
    /\ UNCHANGED led

\* xEventGroupWaitBits(CONNECTED | FAIL, ..., portMAX_DELAY) and the branch
\* on its result.
init_wifi_wait ==
    /\ main_pc = "wait_bits"
    /\ wifi_event_group # {}
    /\ IF WIFI_CONNECTED_BIT \in wifi_event_group
       THEN /\ g_wifi_configured' = TRUE
            /\ UNCHANGED <<wifi_mode, radio>>
       ELSE /\ g_wifi_configured' = FALSE
            /\ wifi_mode' = "off"
            /\ radio' = "off"
    /\ main_pc' = "ap_check"
    /\ UNCHANGED <<nvs, load_err, loaded, wifi_regs, ip_regs, evq, wifi_event_group,
                   join_attempts, server, xfer_vars, usb_vars, g_led_state>>
    /\ UNCHANGED conf_vars
    /\ UNCHANGED led

\* if (!g_wifi_configured) { ... start the access point ... }
init_wifi_ap ==
    /\ main_pc = "ap_check"
    /\ IF ~g_wifi_configured
       THEN /\ wifi_mode' = "ap"
            /\ wifi_regs' = wifi_regs + 1
       ELSE UNCHANGED <<wifi_mode, wifi_regs>>
    /\ main_pc' = "app_mode"
    /\ UNCHANGED <<nvs, load_err, loaded, ip_regs, evq, wifi_event_group,
                   g_wifi_configured, radio, join_attempts, server,
                   xfer_vars, usb_vars, g_led_state>>
    /\ UNCHANGED conf_vars
    /\ UNCHANGED led

\* init_spiffs and init_sd_card leave LED_STATE_ERROR when they fail.
StorageLed(spiffs_ok, sd_ok, shown) ==
    IF spiffs_ok /\ sd_ok THEN shown ELSE LED_STATE_ERROR

\* app_main, normal operation: init_spiffs, init_sd_card, init_usb_host.
\* From here on the driver's task delivers msc_event_cb.
app_main_storage ==
    /\ main_pc = "app_mode"
    /\ g_wifi_configured
    /\ \E spiffs_ok \in BOOLEAN, sd_ok \in BOOLEAN :
          g_led_state' = StorageLed(spiffs_ok, sd_ok, g_led_state)
    /\ main_pc' = "app_start"
    /\ UNCHANGED <<nvs, load_err, loaded, wifi_mode, wifi_regs, ip_regs, evq,
                   wifi_event_group, g_wifi_configured, radio, join_attempts,
                   server, xfer_vars, usb_vars>>
    /\ UNCHANGED conf_vars
    /\ UNCHANGED led

\* The state app_main writes when the main application is up.
BootLed(shown, connected) == LED_STATE_IDLE

\* The MSC driver is installed: init_usb_host has returned.
UsbHostUp == g_wifi_configured /\ main_pc \in {"app_start", "running"}

\* app_main, the end of either branch: start_webserver and LED_STATE_IDLE,
\* or LED_STATE_SETUP and the portal.
app_main_mode ==
    /\ main_pc = IF g_wifi_configured THEN "app_start" ELSE "app_mode"
    /\ IF g_wifi_configured
       THEN /\ server' = "main"
            /\ g_led_state' = BootLed(g_led_state, ebook_reader_connected)
       ELSE /\ server' = "portal"
            /\ g_led_state' = LED_STATE_SETUP
    /\ main_pc' = "running"
    /\ UNCHANGED <<nvs, load_err, loaded, wifi_mode, wifi_regs, ip_regs, evq,
                   wifi_event_group, g_wifi_configured, radio, join_attempts,
                   xfer_vars, usb_vars>>
    /\ UNCHANGED conf_vars
    /\ UNCHANGED led

\* The event loop task takes the next event and runs the handlers.
event_loop ==
    /\ evq # <<>>
    /\ LET event == Head(evq)
           k == IF event = "IP_EVENT_STA_GOT_IP" THEN ip_regs ELSE wifi_regs
           st == RunHandlers(k, event,
                    [bits |-> wifi_event_group, connect |-> 0,
                     configured |-> g_wifi_configured])
       IN
         /\ evq' = Tail(evq)
         /\ wifi_event_group' = st.bits
         /\ g_wifi_configured' = st.configured
         /\ join_attempts' = Min(join_attempts + st.connect, JoinCap)
         /\ radio' = IF st.connect > 0 /\ radio = "idle"
                     THEN "connecting" ELSE radio
    /\ UNCHANGED <<nvs, main_pc, load_err, loaded, wifi_mode, wifi_regs, ip_regs,
                   server, xfer_vars, usb_vars, g_led_state>>
    /\ UNCHANGED conf_vars
    /\ UNCHANGED led

\* The radio stack: an attempt fails, associates, obtains an address, or
\* an established link drops.  It may also do none of these.
radio_join_fail ==
    /\ radio = "connecting"
    /\ Len(evq) < MaxEvents
    /\ radio' = "idle"
    /\ evq' = Append(evq, "WIFI_EVENT_STA_DISCONNECTED")
    /\ UNCHANGED <<nvs, main_pc, load_err, loaded, wifi_mode, wifi_regs, ip_regs,
                   wifi_event_group, g_wifi_configured, join_attempts,
                   server, xfer_vars, usb_vars, g_led_state>>
    /\ UNCHANGED conf_vars
    /\ UNCHANGED led

radio_associate ==
    /\ radio = "connecting"
    /\ Len(evq) < MaxEvents
    /\ radio' = "associated"
    /\ evq' = Append(evq, "WIFI_EVENT_STA_CONNECTED")
    /\ UNCHANGED <<nvs, main_pc, load_err, loaded, wifi_mode, wifi_regs, ip_regs,
                   wifi_event_group, g_wifi_configured, join_attempts,
                   server, xfer_vars, usb_vars, g_led_state>>
    /\ UNCHANGED conf_vars
    /\ UNCHANGED led

radio_got_ip ==
    /\ radio = "associated"
    /\ Len(evq) < MaxEvents
    /\ radio' = "got_ip"
    /\ evq' = Append(evq, "IP_EVENT_STA_GOT_IP")
    /\ UNCHANGED <<nvs, main_pc, load_err, loaded, wifi_mode, wifi_regs, ip_regs,
                   wifi_event_group, g_wifi_configured, join_attempts,
                   server, xfer_vars, usb_vars, g_led_state>>
    /\ UNCHANGED conf_vars
    /\ UNCHANGED led

radio_drop ==
    /\ radio \in {"associated", "got_ip"}
    /\ Len(evq) < MaxEvents
    /\ radio' = "idle"
    /\ evq' = Append(evq, "WIFI_EVENT_STA_DISCONNECTED")
    /\ UNCHANGED <<nvs, main_pc, load_err, loaded, wifi_mode, wifi_regs, ip_regs,
                   wifi_event_group, g_wifi_configured, join_attempts,
                   server, xfer_vars, usb_vars, g_led_state>>
    /\ UNCHANGED conf_vars
    /\ UNCHANGED led

\* A client joins or leaves the setup access point.
ap_client ==
    /\ wifi_mode = "ap"
    /\ Len(evq) < MaxEvents
    /\ \E e \in {"WIFI_EVENT_AP_STACONNECTED", "WIFI_EVENT_AP_STADISCONNECTED"} :
          evq' = Append(evq, e)
    /\ UNCHANGED <<nvs, main_pc, load_err, loaded, wifi_mode, wifi_regs, ip_regs,
                   wifi_event_group, g_wifi_configured, radio, join_attempts,
                   server, xfer_vars, usb_vars, g_led_state>>
    /\ UNCHANGED conf_vars
    /\ UNCHANGED led

\* --------------------------------------------- configuration channels
\* save_wifi_credentials: open (creates the namespace), set ssid, set
\* password, commit.  Each step may be rejected (fault); what was written
\* before a rejected step is not committed and may or may not be in flash
\* (kept).
save_wifi_credentials(n, v, ssid, password, fault, kept) ==
    LET n0 == [n EXCEPT !.ns = TRUE]
        n1 == [n0 EXCEPT !.ssid = TRUE]
        v1 == [v EXCEPT !.ssid = ssid]
        n2 == [n1 EXCEPT !.pass = TRUE]
        v2 == [v1 EXCEPT !.pass = password]
        Out(err, wn, wv) ==
            [err |-> err,
             nvs |-> IF err = ESP_OK \/ kept THEN wn ELSE n,
             nvs_str |-> IF err = ESP_OK \/ kept THEN wv ELSE v]
    IN  IF fault = "nvs_open" THEN Out(ESP_FAIL, n, v)
        ELSE IF fault = "set_ssid" THEN Out(ESP_FAIL, n0, v)
        ELSE IF fault = "set_pass" THEN Out(ESP_FAIL, n1, v1)
        ELSE IF fault = "nvs_commit" THEN Out(ESP_FAIL, n2, v2)
        ELSE Out(ESP_OK, n2, v2)

\* What each channel does with a submission (ssid, password): the store
\* after the call, and whether the handler goes on to esp_restart.
\* save_credentials_post_handler checks the result of the save.
http_submit(n, v, ssid, password, fault, kept) ==
    LET r == save_wifi_credentials(n, v, ssid, password, fault, kept) IN
        [err |-> r.err, nvs |-> r.nvs, nvs_str |-> r.nvs_str,
         restart |-> r.err = ESP_OK,
         status |-> IF r.err = ESP_OK THEN 200 ELSE 500]

\* gatts_profile_event_handler ignores it.
ble_submit(n, v, ssid, password, fault, kept) ==
    LET r == save_wifi_credentials(n, v, ssid, password, fault, kept) IN
        [err |-> r.err, nvs |-> r.nvs, nvs_str |-> r.nvs_str,
         restart |-> TRUE,
         status |-> 0]

\* gatts_profile_event_handler, ESP_GATTS_WRITE_EVT.  The Bluetooth stack
\* is initialised before init_wifi and is never stopped.
gatts_profile_event_handler ==
    /\ ~Halted
    /\ ble.pc = "idle"
    /\ \E w \in BleWrites :
          IF w.attr = "IDX_CHAR_VAL_SSID"
          THEN /\ ble' = [ble EXCEPT !.wifi_ssid = w.value, !.acked = TRUE]
               /\ UNCHANGED <<nvs, nvs_str, save_err>>
          ELSE IF w.attr = "IDX_CHAR_VAL_PASS"
          THEN /\ ble' = [ble EXCEPT !.wifi_password = w.value, !.acked = TRUE]
               /\ UNCHANGED <<nvs, nvs_str, save_err>>
          ELSE IF w.value = "0x01"
          THEN \E fault \in NvsFaults, kept \in BOOLEAN :
                 LET r == ble_submit(nvs, nvs_str, ble.wifi_ssid,
                                     ble.wifi_password, fault, kept)
                 IN /\ nvs' = r.nvs
                    /\ nvs_str' = r.nvs_str
                    /\ save_err' = [channel |-> "ble", err |-> r.err]
                    /\ ble' = IF r.restart
                              THEN [ble EXCEPT
                                      !.pc = "delay",
                                      !.acked = (SAVE_ATTR_CONTROL = "ESP_GATT_AUTO_RSP")]
                              ELSE [ble EXCEPT !.acked = TRUE]
          ELSE /\ ble' = [ble EXCEPT !.acked = TRUE]
               /\ UNCHANGED <<nvs, nvs_str, save_err>>
    /\ UNCHANGED <<main_pc, load_err, loaded, wifi_mode, wifi_regs, ip_regs, evq,
                   wifi_event_group, g_wifi_configured, radio, join_attempts,
                   server, xfer_vars, usb_vars, g_led_state, portal, led>>

\* esp_restart: this boot ends; the next one starts from the store as it
\* is now.
esp_restart ==
    /\ main_pc' = "restart"
    /\ wifi_mode' = "off"
    /\ radio' = "off"
    /\ evq' = <<>>
    /\ server' = "none"
    /\ UNCHANGED <<nvs, load_err, loaded, wifi_regs, ip_regs, wifi_event_group,
                   g_wifi_configured, join_attempts, xfer_vars, usb_vars,
                   g_led_state, conf_vars, led>>

\* The boot that follows esp_restart: RAM is initialised again, flash and
\* the card keep what they hold, the removable device is enumerated anew.
reboot ==
    /\ main_pc = "restart"
    /\ main_pc' = "init_wifi"
    /\ load_err' = "-"
    /\ loaded' = NotLoaded
    /\ wifi_regs' = 0
    /\ ip_regs' = 0
    /\ wifi_event_group' = {}
    /\ g_wifi_configured' = FALSE
    /\ join_attempts' = 0
    /\ pending' = {}
    /\ httpd' = [t \in Tasks |-> IdleTask]
    /\ g_transfer_progress' =
          [filename |-> "", bytes_transferred |-> 0, total_bytes |-> 0,
           active |-> FALSE, success |-> FALSE, error_msg |-> MSG_NONE]
    /\ g_cancel_transfer' = FALSE
    /\ g_led_state' = LED_STATE_INIT
    /\ ebook_reader_connected' = FALSE
    /\ usb_attached' = FALSE
    /\ usb_mounted' = FALSE
    /\ ble' = IdleBle
    /\ portal' = IdlePortal
    /\ led' = IdleLedTask
    /\ UNCHANGED <<nvs, nvs_str, save_err, fs, wifi_mode, radio, evq, server>>

\* gatts_profile_event_handler after vTaskDelay(1000 ms).
gatts_profile_event_handler_restart ==
    /\ ~Halted
    /\ ble.pc = "delay"
    /\ esp_restart

PortalIdle ==
    /\ ~Halted
    /\ server = "portal"
    /\ portal.pc = "idle"

PortalFrame ==
    UNCHANGED <<main_pc, load_err, loaded, wifi_mode, wifi_regs, ip_regs, evq,
                wifi_event_group, g_wifi_configured, radio, join_attempts,
                server, xfer_vars, usb_vars, g_led_state, ble, led>>

\* setup_get_handler: GET /
setup_get_handler ==
    /\ PortalIdle
    /\ \E r \in PortalRequests :
          /\ r.method = "GET" /\ r.uri = "/"
          /\ portal' = [portal EXCEPT !.rsp = PortalRsp(r, 200)]
    /\ UNCHANGED <<nvs, nvs_str, save_err>>
    /\ PortalFrame

\* save_credentials_post_handler: POST /save-credentials
save_credentials_post_handler ==
    /\ PortalIdle
    /\ \E r \in PortalRequests :
          /\ r.method = "POST" /\ r.uri = "/save-credentials"
          /\ IF r.form = "too_long"
             THEN /\ portal' = [portal EXCEPT !.rsp = PortalRsp(r, 400)]
                  /\ UNCHANGED <<nvs, nvs_str, save_err>>
             ELSE IF r.form = "recv_timeout"
             THEN /\ portal' = [portal EXCEPT !.rsp = PortalRsp(r, 408)]
                  /\ UNCHANGED <<nvs, nvs_str, save_err>>
             ELSE IF r.form = "recv_fail"
             THEN /\ portal' = [portal EXCEPT !.rsp = PortalRsp(r, 0)]
                  /\ UNCHANGED <<nvs, nvs_str, save_err>>
             ELSE IF r.form # "ok"
             THEN /\ portal' = [portal EXCEPT !.rsp = PortalRsp(r, 400)]
                  /\ UNCHANGED <<nvs, nvs_str, save_err>>
             ELSE IF ~(Fits(r.ssid, SSID_BUF) /\ Fits(r.password, PASS_BUF))
             THEN /\ portal' = [portal EXCEPT !.rsp = PortalRsp(r, 400)]
                  /\ UNCHANGED <<nvs, nvs_str, save_err>>
             ELSE \E fault \in NvsFaults, kept \in BOOLEAN :
                    LET o == http_submit(nvs, nvs_str, r.ssid, r.password,
                                         fault, kept)
                    IN /\ nvs' = o.nvs
                       /\ nvs_str' = o.nvs_str
                       /\ save_err' = [channel |-> "http", err |-> o.err]
                       /\ portal' = [pc |-> IF o.restart THEN "delay" ELSE "idle",
                                     rsp |-> PortalRsp(r, o.status)]
    /\ PortalFrame

\* save_credentials_post_handler after vTaskDelay(2000 ms).
save_credentials_post_handler_restart ==
    /\ ~Halted
    /\ portal.pc = "delay"
    /\ esp_restart

\* http_404_error_handler: the response it builds.
http_404_error_handler_plain(r) == PortalRsp(r, 404)

http_404_error_handler(r) == [PortalRsp(r, 302) EXCEPT !.location = "/"]

\* The server found no handler for the URI: the registered 404 handler.
portal_not_found ==
    /\ PortalIdle
    /\ \E r \in PortalRequests :
          /\ r.uri \notin {"/", "/save-credentials"}
          /\ portal' = [portal EXCEPT !.rsp = http_404_error_handler(r)]
    /\ UNCHANGED <<nvs, nvs_str, save_err>>
    /\ PortalFrame

\* The URI has a handler, for another method: the server's own 405.
portal_method_not_allowed ==
    /\ PortalIdle
    /\ \E r \in PortalRequests :
          /\ \/ r.uri = "/" /\ r.method # "GET"
             \/ r.uri = "/save-credentials" /\ r.method # "POST"
          /\ portal' = [portal EXCEPT !.rsp = PortalRsp(r, 405)]
    /\ UNCHANGED <<nvs, nvs_str, save_err>>
    /\ PortalFrame

\* ---------------------------------------------------- removable device
\* fopen on a path under a mount point succeeds only while the file system
\* is mounted there; /sdcard is mounted for good, /usb by msc_event_cb.
Accessible_unmounted(root) == TRUE

Accessible(root) == root = "sd" \/ usb_mounted

\* msc_event_cb, MSC_DEVICE_CONNECTED: the flag and the indicator are set
\* before the mount is tried; a failed mount only changes the indicator.
msc_event_cb_connected ==
    /\ UsbHostUp
    /\ ~usb_attached
    /\ usb_attached' = TRUE
    /\ ebook_reader_connected' = TRUE
    /\ \E mount_ok \in BOOLEAN :
          /\ usb_mounted' = mount_ok
          /\ g_led_state' =
                IF mount_ok THEN LED_STATE_CONNECTED ELSE LED_STATE_ERROR
    /\ UNCHANGED <<prov_vars, xfer_vars>>
    /\ UNCHANGED conf_vars
    /\ UNCHANGED led

\* msc_event_cb, MSC_DEVICE_DISCONNECTED.  Streams that were open on /usb
\* fail from now on.
msc_event_cb_disconnected ==
    /\ usb_attached
    /\ usb_attached' = FALSE
    /\ ebook_reader_connected' = FALSE
    /\ g_led_state' = LED_STATE_IDLE
    /\ usb_mounted' = FALSE
    /\ httpd' = [t \in Tasks |->
          [httpd[t] EXCEPT
              !.src_ok = @ /\ httpd[t].req.source = "sd",
              !.dst_ok = @ /\ httpd[t].req.destination = "sd"]]
    /\ UNCHANGED <<prov_vars, pending, g_transfer_progress,
                   g_cancel_transfer, fs>>
    /\ UNCHANGED conf_vars
    /\ UNCHANGED led

\* eject_button_task, one press and release of the button: the unmount and
\* the feedback state if the flag says a device is there, else nothing.
\* The flag and the device handle are left as they are.
eject_button_task ==
    /\ main_pc = "running"
    /\ IF ebook_reader_connected
       THEN /\ usb_mounted' = FALSE
            /\ g_led_state' = LED_STATE_EJECT
            /\ httpd' = [t \in Tasks |->
                  [httpd[t] EXCEPT
                      !.src_ok = @ /\ httpd[t].req.source = "sd",
                      !.dst_ok = @ /\ httpd[t].req.destination = "sd"]]
       ELSE UNCHANGED <<usb_mounted, g_led_state, httpd>>
    /\ UNCHANGED <<prov_vars, pending, g_transfer_progress, g_cancel_transfer,
                   fs, ebook_reader_connected, usb_attached>>
    /\ UNCHANGED conf_vars
    /\ UNCHANGED led

\* ------------------------------------------------------------ indicator
\* led_status_task, switch (g_led_state): the iteration's only read of the
\* indicator state. The value selects the case that runs.
led_status_task_switch ==
    /\ ~Halted
    /\ led.pc = "switch"
    /\ led' = [led EXCEPT
                 !.pc = IF g_led_state = LED_STATE_EJECT THEN "blink"
                        ELSE "render",
                 !.snap = g_led_state, !.j = 0]
    /\ UNCHANGED <<prov_vars, xfer_vars, usb_vars, g_led_state, conf_vars>>

\* The state a case draws: the one the switch selected it by.
Rendered_live(snap, live) == live

Rendered(snap, live) == snap

\* A case other than LED_STATE_EJECT: set the pixels, refresh the strip,
\* sleep, break. The default case only sleeps.
led_status_task_render ==
    /\ ~Halted
    /\ led.pc = "render"
    /\ LET drawn == Rendered(led.snap, g_led_state)
           next == Pattern(drawn, led.brightness, led.increasing)
       IN  led' = [led EXCEPT !.pc = "switch",
                              !.frame = Frame(drawn, @),
                              !.brightness = next.brightness,
                              !.increasing = next.increasing]
    /\ UNCHANGED <<prov_vars, xfer_vars, usb_vars, g_led_state, conf_vars>>

\* case LED_STATE_EJECT, one turn of the for loop: green for 150 ms, clear
\* for 150 ms.
led_status_task_blink ==
    /\ ~Halted
    /\ led.pc = "blink"
    /\ led.j < BLINKS
    /\ led' = [led EXCEPT !.j = @ + 1,
                          !.frame = Frame(Rendered(led.snap, g_led_state), @)]
    /\ UNCHANGED <<prov_vars, xfer_vars, usb_vars, g_led_state, conf_vars>>

\* case LED_STATE_EJECT, after the loop: g_led_state = LED_STATE_IDLE
RevertLed(connected) == LED_STATE_IDLE

led_status_task_revert ==
    /\ ~Halted
    /\ led.pc = "blink"
    /\ led.j = BLINKS
    /\ g_led_state' = RevertLed(ebook_reader_connected)
    /\ led' = [led EXCEPT !.pc = "switch", !.j = 0]
    /\ UNCHANGED <<prov_vars, xfer_vars, usb_vars, conf_vars>>

led_status_task ==
    \/ led_status_task_switch
    \/ led_status_task_render
    \/ led_status_task_blink
    \/ led_status_task_revert

\* ------------------------------------------------------- request arrival
JobPhase ==
    IF ~g_transfer_progress.active THEN "Idle"
    ELSE IF \E t \in Tasks :
                httpd[t].pc \in {"cf_open", "cf_read", "cf_chunk", "cf_write"}
    THEN "Copying"
    ELSE "Resolved"

Stamp(r) == [r EXCEPT !.job = JobPhase]

\* A client sends a request while no serving task is free to take it.
client_send ==
    /\ server = "main"
    /\ \A t \in Tasks : httpd[t].pc # "idle"
    /\ Cardinality(pending) < MaxPending
    /\ \E r \in BusyRequests : pending' = pending \cup {Stamp(r)}
    /\ UNCHANGED <<prov_vars, usb_vars, httpd, g_transfer_progress,
                   g_cancel_transfer, g_led_state, fs>>
    /\ UNCHANGED conf_vars
    /\ UNCHANGED led

\* An idle serving task takes a waiting request, or one that arrives now.
Takes(t, r) ==
    /\ server = "main"
    /\ httpd[t].pc = "idle"
    /\ \/ r \in pending /\ pending' = pending \ {r}
       \/ pending = {} /\ r \in {Stamp(q) : q \in Requests} /\ UNCHANGED pending

\* ------------------------------------------------------- transfer engine
IdleLed == IF ebook_reader_connected THEN LED_STATE_CONNECTED ELSE LED_STATE_IDLE

Answer(r, status, success, message) ==
    [uri |-> r.uri, job |-> r.job, status |-> status,
     success |-> success, message |-> message, active |-> FALSE,
     snap |-> NoSnap, query |-> "-", opened |-> "-", list |-> {}]

\* The snapshot both polling handlers read from g_transfer_progress.
SnapshotOf(p) ==
    [filename |-> p.filename,
     bytes_transferred |-> p.bytes_transferred,
     total_bytes |-> p.total_bytes]

Snapshot == SnapshotOf(g_transfer_progress)

\* transfer_progress_handler: the answer it builds from the job record p.
ProgressAnswer_always(r, p) ==
    [Answer(r, 200, TRUE, MSG_NONE) EXCEPT !.snap = SnapshotOf(p)]

ProgressAnswer(r, p) ==
    IF ~p.active
    THEN Answer(r, 404, FALSE, MSG_NONE)
    ELSE [Answer(r, 200, TRUE, MSG_NONE) EXCEPT !.snap = SnapshotOf(p)]

\* status_handler: transfer_active, and the three fields under
\* if (g_transfer_progress.active).
StatusAnswer(r, p) ==
    IF ~p.active
    THEN Answer(r, 200, TRUE, MSG_NONE)
    ELSE [Answer(r, 200, TRUE, MSG_NONE)
            EXCEPT !.active = TRUE, !.snap = SnapshotOf(p)]

\* progress->bytes_transferred += bytes_read
AddChunk_buffer(done, n) == done + COPY_BUFFER

AddChunk(done, n) == done + n

\* g_cancel_transfer = false, when a job is initialised
ResetCancel_kept(flag) == flag

ResetCancel(flag) == FALSE

\* if (g_cancel_transfer), at the head of the loop body
CancelSeen_never(flag) == FALSE

CancelSeen(flag) == flag

\* The indicator the handler leaves after copy_file has returned.
ResultLed_idle(res, idle) == idle

ResultLed(res, idle) == IF res # ESP_OK THEN LED_STATE_ERROR ELSE idle

\* g_transfer_progress.active = false, after the response has been sent
Deactivate_never(p) == p

Deactivate(p) == [p EXCEPT !.active = FALSE]

SrcPath(r) == <<r.source, r.filename>>
DstPath(r) == <<r.destination, r.filename>>

\* transfer_file_handler, entry: the busy check, then the indicator, then
\* the blocking httpd_req_recv.
transfer_file_handler(t) ==
    /\ \E r \in pending \cup {Stamp(q) : q \in Requests} :
          /\ r.uri = "/transfer-file"
          /\ Takes(t, r)
          /\ IF g_transfer_progress.active
             THEN /\ httpd' = [httpd EXCEPT ![t] =
                        [IdleTask EXCEPT !.rsp = Answer(r, 429, FALSE, MSG_BUSY)]]
                  /\ UNCHANGED g_led_state
             ELSE /\ httpd' = [httpd EXCEPT ![t] =
                        [IdleTask EXCEPT !.pc = "tf_recv", !.req = r]]
                  /\ g_led_state' = LED_STATE_TRANSFER
    /\ UNCHANGED <<prov_vars, usb_vars, g_transfer_progress,
                   g_cancel_transfer, fs>>
    /\ UNCHANGED conf_vars
    /\ UNCHANGED led

\* transfer_file_handler, from the received body to the initialised job.
transfer_file_handler_parse(t) ==
    /\ httpd[t].pc = "tf_recv"
    /\ LET r == httpd[t].req IN
         IF r.body = "ok"
         THEN /\ g_transfer_progress' =
                    [filename |-> r.filename, bytes_transferred |-> 0,
                     total_bytes |-> 0, active |-> TRUE, success |-> FALSE,
                     error_msg |-> MSG_NONE]
              /\ g_cancel_transfer' = ResetCancel(g_cancel_transfer)
              /\ httpd' = [httpd EXCEPT ![t].pc = "cf_open"]
              /\ UNCHANGED g_led_state
         ELSE /\ g_led_state' = IdleLed
              /\ httpd' = [httpd EXCEPT ![t] =
                    [IdleTask EXCEPT !.rsp =
                        IF r.body = "recv_fail"
                        THEN Answer(r, 0, FALSE, MSG_NONE)
                        ELSE Answer(r, 400, FALSE, MSG_NONE)]]
              /\ UNCHANGED <<g_transfer_progress, g_cancel_transfer>>
    /\ UNCHANGED <<prov_vars, usb_vars, pending, fs>>
    /\ UNCHANGED conf_vars
    /\ UNCHANGED led

CopyFails_counted(t, msg) ==
    /\ g_transfer_progress' =
          [g_transfer_progress EXCEPT
              !.error_msg = msg,
              !.bytes_transferred = @ + httpd[t].bytes_read]
    /\ httpd' = [httpd EXCEPT ![t].pc = "tf_finish", ![t].res = ESP_FAIL]

\* copy_file returns ESP_FAIL: the message is all it writes to the record.
CopyFails(t, msg) ==
    /\ g_transfer_progress' = [g_transfer_progress EXCEPT !.error_msg = msg]
    /\ httpd' = [httpd EXCEPT ![t].pc = "tf_finish", ![t].res = ESP_FAIL]

\* copy_file up to the loop: open the source, stat it, open the
\* destination ("wb" creates or truncates it), allocate the buffer.
copy_file_open(t) ==
    /\ httpd[t].pc = "cf_open"
    /\ LET sp == SrcPath(httpd[t].req)
           dp == DstPath(httpd[t].req)
       IN
         IF ~(Accessible(sp[1]) /\ fs[sp] # Absent)
         THEN CopyFails(t, MSG_SRC) /\ UNCHANGED fs
         ELSE \E dst_opens \in BOOLEAN, malloc_ok \in BOOLEAN :
                IF ~(Accessible(dp[1]) /\ dst_opens)
                THEN /\ g_transfer_progress' =
                            [g_transfer_progress EXCEPT
                                !.total_bytes = fs[sp],
                                !.bytes_transferred = 0,
                                !.error_msg = MSG_DST]
                     /\ httpd' = [httpd EXCEPT ![t].pc = "tf_finish",
                                               ![t].res = ESP_FAIL]
                     /\ UNCHANGED fs
                ELSE /\ fs' = [fs EXCEPT ![dp] = 0]
                     /\ IF ~malloc_ok
                        THEN /\ g_transfer_progress' =
                                    [g_transfer_progress EXCEPT
                                        !.total_bytes = fs[sp],
                                        !.bytes_transferred = 0,
                                        !.error_msg = MSG_MEM]
                             /\ httpd' = [httpd EXCEPT ![t].pc = "tf_finish",
                                                       ![t].res = ESP_FAIL]
                        ELSE /\ g_transfer_progress' =
                                    [g_transfer_progress EXCEPT
                                        !.total_bytes = fs[sp],
                                        !.bytes_transferred = 0]
                             /\ httpd' = [httpd EXCEPT
                                    ![t].pc = "cf_read", ![t].pos = 0,
                                    ![t].src_ok = TRUE, ![t].dst_ok = TRUE]
    /\ UNCHANGED <<prov_vars, usb_vars, pending, g_cancel_transfer,
                   g_led_state>>
    /\ UNCHANGED conf_vars
    /\ UNCHANGED led

\* The loop condition: fread returns what is left of the source, at most
\* one buffer; 0 at the end of the file and also when the read fails.
copy_file_read(t) ==
    /\ httpd[t].pc = "cf_read"
    /\ LET sp == SrcPath(httpd[t].req)
           left == IF httpd[t].src_ok /\ fs[sp] # Absent
                   THEN Max(0, fs[sp] - httpd[t].pos) ELSE 0
           n == Min(COPY_BUFFER, left)
       IN
         IF n > 0
         THEN /\ httpd' = [httpd EXCEPT ![t].pc = "cf_chunk",
                                        ![t].bytes_read = n,
                                        ![t].pos = @ + n]
              /\ UNCHANGED g_transfer_progress
         ELSE /\ g_transfer_progress' =
                    [g_transfer_progress EXCEPT !.success = TRUE]
              /\ httpd' = [httpd EXCEPT ![t].pc = "tf_finish",
                                        ![t].res = ESP_OK]
    /\ UNCHANGED <<prov_vars, usb_vars, pending, g_cancel_transfer,
                   g_led_state, fs>>
    /\ UNCHANGED conf_vars
    /\ UNCHANGED led

\* The loop body, first half: the cancellation check, which on a set flag
\* closes both files and removes the destination.
copy_file_chunk(t) ==
    /\ httpd[t].pc = "cf_chunk"
    /\ LET dp == DstPath(httpd[t].req) IN
         IF CancelSeen(g_cancel_transfer)
         THEN /\ CopyFails(t, MSG_CANCEL)
              /\ fs' = IF Accessible(dp[1])
                       THEN [fs EXCEPT ![dp] = Absent] ELSE fs
         ELSE /\ httpd' = [httpd EXCEPT ![t].pc = "cf_write"]
              /\ UNCHANGED <<g_transfer_progress, fs>>
    /\ UNCHANGED <<prov_vars, usb_vars, pending, g_cancel_transfer,
                   g_led_state>>
    /\ UNCHANGED conf_vars
    /\ UNCHANGED led

\* The loop body, second half: the write and the progress update.
copy_file_write(t) ==
    /\ httpd[t].pc = "cf_write"
    /\ LET dp == DstPath(httpd[t].req)
           n == httpd[t].bytes_read
       IN
         \E disk_ok \in BOOLEAN :
            IF ~(httpd[t].dst_ok /\ disk_ok)
            THEN CopyFails(t, MSG_WRITE) /\ UNCHANGED fs
            ELSE /\ fs' = IF fs[dp] = Absent THEN fs
                          ELSE [fs EXCEPT ![dp] = @ + n]
                 /\ g_transfer_progress' =
                        [g_transfer_progress EXCEPT
                            !.bytes_transferred = AddChunk(@, n)]
                 /\ httpd' = [httpd EXCEPT ![t].pc = "cf_read"]
    /\ UNCHANGED <<prov_vars, usb_vars, pending, g_cancel_transfer,
                   g_led_state>>
    /\ UNCHANGED conf_vars
    /\ UNCHANGED led

\* transfer_file_handler after copy_file: the indicator, the response,
\* then active = false.
transfer_file_handler_finish(t) ==
    /\ httpd[t].pc = "tf_finish"
    /\ LET r == httpd[t].req
           ok == httpd[t].res = ESP_OK
       IN
         /\ g_led_state' = ResultLed(httpd[t].res, IdleLed)
         /\ httpd' = [httpd EXCEPT ![t] =
                [IdleTask EXCEPT !.rsp =
                    Answer(r, 200, ok,
                        IF ok THEN MSG_DONE ELSE g_transfer_progress.error_msg)]]
         /\ g_transfer_progress' = Deactivate(g_transfer_progress)
    /\ UNCHANGED <<prov_vars, usb_vars, pending, g_cancel_transfer, fs>>
    /\ UNCHANGED conf_vars
    /\ UNCHANGED led

\* transfer_cancel_handler
transfer_cancel_handler(t) ==
    /\ \E r \in pending \cup {Stamp(q) : q \in Requests} :
          /\ r.uri = "/transfer-cancel"
          /\ Takes(t, r)
          /\ g_cancel_transfer' = TRUE
          /\ httpd' = [httpd EXCEPT ![t] =
                [IdleTask EXCEPT !.rsp = Answer(r, 200, TRUE, "OK")]]
    /\ UNCHANGED <<prov_vars, usb_vars, g_transfer_progress, g_led_state, fs>>
    /\ UNCHANGED conf_vars
    /\ UNCHANGED led

\* transfer_progress_handler
transfer_progress_handler(t) ==
    /\ \E r \in pending \cup {Stamp(q) : q \in Requests} :
          /\ r.uri = "/transfer-progress"
          /\ Takes(t, r)
          /\ httpd' = [httpd EXCEPT ![t] =
                [IdleTask EXCEPT !.rsp =
                    ProgressAnswer(r, g_transfer_progress)]]
    /\ UNCHANGED <<prov_vars, usb_vars, g_transfer_progress,
                   g_cancel_transfer, g_led_state, fs>>
    /\ UNCHANGED conf_vars
    /\ UNCHANGED led

\* status_handler
status_handler(t) ==
    /\ \E r \in pending \cup {Stamp(q) : q \in Requests} :
          /\ r.uri = "/status"
          /\ Takes(t, r)
          /\ httpd' = [httpd EXCEPT ![t] =
                [IdleTask EXCEPT !.rsp =
                    StatusAnswer(r, g_transfer_progress)]]
    /\ UNCHANGED <<prov_vars, usb_vars, g_transfer_progress,
                   g_cancel_transfer, g_led_state, fs>>
    /\ UNCHANGED conf_vars
    /\ UNCHANGED led

\* list_files_handler: the answer it builds.  connected is
\* ebook_reader_connected, mounted says whether /usb is mounted, dir_ok
\* whether opendir succeeds on a mounted root, files is the disk.  Every
\* name of Names is a regular file with a listed extension.
Listed(r, status) ==
    [Answer(r, status, status = 200, MSG_NONE) EXCEPT !.query = r.body]

ListFiles_unguarded(r, connected, mounted, dir_ok, files) ==
    IF r.body \in {"no_query", "no_type"} THEN Listed(r, 400)
    ELSE LET mount_path == IF r.body = "sd" THEN "sd" ELSE "usb" IN
         IF ~((mount_path = "sd" \/ mounted) /\ dir_ok)
         THEN [Listed(r, 500) EXCEPT !.opened = mount_path]
         ELSE [Listed(r, 200) EXCEPT
                 !.opened = mount_path,
                 !.list = {n \in Names : files[<<mount_path, n>>] # Absent}]

ListFiles(r, connected, mounted, dir_ok, files) ==
    IF r.body \in {"no_query", "no_type"} THEN Listed(r, 400)
    ELSE LET mount_path == IF r.body = "sd" THEN "sd" ELSE "usb" IN
         IF r.body = "usb" /\ ~connected
         THEN Listed(r, 200)
         ELSE IF ~((mount_path = "sd" \/ mounted) /\ dir_ok)
         THEN [Listed(r, 500) EXCEPT !.opened = mount_path]
         ELSE [Listed(r, 200) EXCEPT
                 !.opened = mount_path,
                 !.list = {n \in Names : files[<<mount_path, n>>] # Absent}]

\* list_files_handler of the earlier firmware (src/main.c): the same
\* checks in the same order; the array carries the names only.
ListFilesOld(r, connected, mounted, dir_ok, files) ==
    IF r.body = "no_query" THEN Listed(r, 400)
    ELSE IF r.body = "no_type" THEN Listed(r, 400)
    ELSE LET mount_path == IF r.body = "sd" THEN "sd" ELSE "usb" IN
         IF r.body = "usb" /\ ~connected
         THEN Listed(r, 200)
         ELSE IF ~(mount_path = "sd" \/ mounted) \/ ~dir_ok
         THEN [Listed(r, 500) EXCEPT !.opened = mount_path]
         ELSE [Listed(r, 200) EXCEPT
                 !.opened = mount_path,
                 !.list = {n \in Names : files[<<mount_path, n>>] # Absent}]

\* list_files_handler
\* sleep_handler, POST /enter-sleep: answers "OK", waits 100 ms, clears the
\* strip and calls esp_deep_sleep_start, which does not return. No wake-up
\* source is configured.
sleep_handler(t) ==
    /\ server = "main"
    /\ httpd[t].pc = "idle"
    /\ pending = {}
    /\ httpd' = [httpd EXCEPT ![t] =
          [IdleTask EXCEPT !.rsp =
              Answer(Stamp(Req("/enter-sleep", "-", "-", "-", "-")),
                     200, TRUE, "OK")]]
    /\ led' = [led EXCEPT !.frame = FRAME_OFF]
    /\ main_pc' = "deep_sleep"
    /\ wifi_mode' = "off"
    /\ radio' = "off"
    /\ evq' = <<>>
    /\ server' = "none"
    /\ UNCHANGED <<nvs, load_err, loaded, wifi_regs, ip_regs, wifi_event_group,
                   g_wifi_configured, join_attempts, usb_vars, pending,
                   g_transfer_progress, g_cancel_transfer, g_led_state, fs,
                   conf_vars>>

list_files_handler(t) ==
    /\ server = "main"
    /\ httpd[t].pc = "idle"
    /\ pending = {}
    /\ \E r \in ListRequests, dir_ok \in BOOLEAN :
          httpd' = [httpd EXCEPT ![t] =
              [IdleTask EXCEPT !.rsp =
                  ListFiles(Stamp(r), ebook_reader_connected, usb_mounted,
                            dir_ok, fs)]]
    /\ UNCHANGED <<prov_vars, usb_vars, pending, g_transfer_progress,
                   g_cancel_transfer, g_led_state, fs>>
    /\ UNCHANGED conf_vars
    /\ UNCHANGED led

\* ------------------------------------------------------------ the system
Boot ==
    \/ init_wifi_load
    \/ init_wifi_wait
    \/ init_wifi_ap
    \/ app_main_storage
    \/ app_main_mode

Radio == radio_join_fail \/ radio_associate \/ radio_got_ip \/ radio_drop

Serve(t) ==
    \/ transfer_file_handler(t)
    \/ transfer_file_handler_parse(t)
    \/ copy_file_open(t)
    \/ copy_file_read(t)
    \/ copy_file_chunk(t)
    \/ copy_file_write(t)
    \/ transfer_file_handler_finish(t)
    \/ transfer_cancel_handler(t)
    \/ transfer_progress_handler(t)
    \/ status_handler(t)

Portal ==
    \/ setup_get_handler
    \/ save_credentials_post_handler
    \/ save_credentials_post_handler_restart
    \/ portal_not_found
    \/ portal_method_not_allowed

Ble == gatts_profile_event_handler \/ gatts_profile_event_handler_restart

Program ==
    \/ Boot
    \/ reboot
    \/ event_loop
    \/ (\E t \in Tasks : Serve(t))
    \/ (\E t \in Tasks : list_files_handler(t))
    \/ (\E t \in Tasks : sleep_handler(t))
    \/ Portal
    \/ Ble
    \/ led_status_task

Environment ==
    \/ Radio
    \/ ap_client
    \/ client_send
    \/ msc_event_cb_connected
    \/ msc_event_cb_disconnected
    \/ eject_button_task

Next == Program \/ Environment

Spec == Init /\ [][Next]_vars

\* Provisioning alone.  No action outside ProvNext changes prov_vars, and
\* no action of ProvNext reads anything else.
ProvNext == Boot \/ event_loop \/ Radio \/ ap_client

ProvSpec == Init /\ [][ProvNext]_vars

\* The firmware's own tasks (app_main, the event loop task) each keep
\* running; the radio and the clients of the access point owe nothing.
ProvFairSpec == ProvSpec /\ WF_vars(Boot) /\ WF_vars(event_loop)

\* Provisioning with both configuration channels.
ConfInit == Init /\ fs[<<"sd", "a.epub">>] = 0

ConfNext == ProvNext \/ Portal \/ Ble

ConfSpec == ConfInit /\ [][ConfNext]_vars

\* The credential store over several boots: the wireless channel, the
\* restart and the boot that loads what was saved.  No radio answers.
StoreNext ==
    \/ Boot
    \/ event_loop
    \/ radio_associate
    \/ radio_got_ip
    \/ Ble
    \/ reboot

StoreSpec == ConfInit /\ [][StoreNext]_vars

\* The main application: boots with a stored credential whose join
\* succeeds, then the server, its clients and the removable device.  Of
\* prov_vars the transfer engine reads only server.
StoredInit == Init /\ load_wifi_credentials(nvs) = ESP_OK /\ nvs.pass

XferNext ==
    \/ Boot
    \/ event_loop
    \/ radio_associate
    \/ radio_got_ip
    \/ (\E t \in Tasks : Serve(t))
    \/ client_send
    \/ msc_event_cb_connected
    \/ msc_event_cb_disconnected

XferSpec == StoredInit /\ [][XferNext]_vars

\* g_cancel_transfer = true, written while copy_file is running.  The flag
\* is a volatile global that the copy loop polls; no task of the deployed
\* server writes it during a copy (see Scheduling), so this action is part
\* of EngineSpec only.
g_cancel_transfer_set ==
    /\ \E t \in Tasks :
          httpd[t].pc \in {"cf_open", "cf_read", "cf_chunk", "cf_write"}
    /\ ~g_cancel_transfer
    /\ g_cancel_transfer' = TRUE
    /\ UNCHANGED <<prov_vars, usb_vars, pending, httpd, g_transfer_progress,
                   g_led_state, fs, conf_vars, led>>

\* The transfer engine on its own terms: transfer_file_handler and
\* copy_file with a cancellation flag that is set beside the running loop.
\* Every request finds the serving task idle.
EngineNext ==
    \/ Boot
    \/ event_loop
    \/ radio_associate
    \/ radio_got_ip
    \/ \E t \in Tasks : Serve(t)
    \/ msc_event_cb_connected
    \/ msc_event_cb_disconnected
    \/ g_cancel_transfer_set

EngineSpec == StoredInit /\ [][EngineNext]_vars

\* The serving task keeps running: a handler that can take its next step
\* takes it.
EngineFairSpec == EngineSpec /\ WF_vars(\E t \in Tasks : Serve(t))

\* The removable device under a running transfer: the main application
\* with the eject button, every request finding the serving task idle.
\* The transfer engine beside the two ways the device goes down: the sleep
\* request and the commit on the wireless channel. Tasks run while the
\* device is up.
PowerNext ==
    \/ Boot
    \/ event_loop
    \/ radio_associate
    \/ radio_got_ip
    \/ ~Halted /\ (\E t \in Tasks : Serve(t))
    \/ \E t \in Tasks : sleep_handler(t)
    \/ Ble

PowerSpec == StoredInit /\ [][PowerNext]_vars

DeviceNext ==
    \/ Boot
    \/ event_loop
    \/ radio_associate
    \/ radio_got_ip
    \/ (\E t \in Tasks : Serve(t))
    \/ msc_event_cb_connected
    \/ msc_event_cb_disconnected
    \/ eject_button_task

DeviceSpec == StoredInit /\ [][DeviceNext]_vars

\* The same with the directory listing.
ListNext == DeviceNext \/ (\E t \in Tasks : list_files_handler(t))

ListSpec == StoredInit /\ [][ListNext]_vars

\* The indicator with no client of the server: the boot, the removable
\* device, the eject button and the renderer.
IndicatorNext ==
    \/ Boot
    \/ event_loop
    \/ radio_associate
    \/ radio_got_ip
    \/ msc_event_cb_connected
    \/ msc_event_cb_disconnected
    \/ eject_button_task
    \/ led_status_task

IndicatorSpec == Init /\ [][IndicatorNext]_vars

\* The renderer keeps running.
IndicatorFairSpec == IndicatorSpec /\ WF_vars(led_status_task)

\* The renderer's patterns beside the transfer handler, which moves the
\* indicator between the breathing and the pulsing pattern. With an empty
\* book on the card the copy loop's body is never entered.
Transfer(t) ==
    \/ transfer_file_handler(t)
    \/ transfer_file_handler_parse(t)
    \/ copy_file_open(t)
    \/ copy_file_read(t)
    \/ transfer_file_handler_finish(t)

RenderNext ==
    \/ Boot
    \/ event_loop
    \/ radio_associate
    \/ radio_got_ip
    \/ led_status_task_switch
    \/ led_status_task_render
    \/ \E t \in Tasks : Transfer(t)

\* Boots with and without a complete stored credential, one empty book on
\* the card.
RenderInit ==
    /\ Init
    /\ nvs.ns /\ (nvs.ssid <=> nvs.pass)
    /\ fs[<<"sd", "a.epub">>] = 0

RenderSpec == RenderInit /\ [][RenderNext]_vars

\* =================================================================
\* Properties
\* =================================================================
\* The serving task t has set the job active and not yet reset it.
Admitted(t) ==
    httpd[t].pc \in {"cf_open", "cf_read", "cf_chunk", "cf_write", "tf_finish"}

\* copy_file has returned in task t; the response is not sent yet.
Resolved(t) == httpd[t].pc = "tf_finish"

\* Requests sent while copy_file was running, not yet dispatched.
Waiting(uri) == {r \in pending : r.uri = uri /\ r.job = "Copying"}

\* C1: a transfer request that arrived while a job was Active is rejected
\* with the busy error (429); it never gets past the busy check.
C1_BusyRejected ==
    \A t \in Tasks :
        /\ httpd[t].pc # "idle" => httpd[t].req.job = "Idle"
        /\ (httpd[t].rsp.uri = "/transfer-file" /\ httpd[t].rsp.job # "Idle")
              => httpd[t].rsp.status = 429

\* C2: at most one serving task is between the admission of a job and its
\* reset, and the job is Active exactly while one is.
C2_SingleCopyLoop ==
    /\ Cardinality({t \in Tasks : Admitted(t)}) <= 1
    /\ g_transfer_progress.active <=> (\E t \in Tasks : Admitted(t))

\* A copy loop is running and a second transfer request has arrived.
C2_Witness ==
    \E t \in Tasks :
        /\ httpd[t].pc = "cf_chunk"
        /\ g_transfer_progress.active
        /\ Waiting("/transfer-file") # {}

\* C3: a job that copy_file reports as succeeded has success set and, when
\* total_bytes is known, bytes_transferred = total_bytes.
C3_SucceededIsComplete ==
    \A t \in Tasks :
        (Resolved(t) /\ httpd[t].res = ESP_OK) =>
            /\ g_transfer_progress.success
            /\ g_transfer_progress.total_bytes # 0 =>
                  g_transfer_progress.bytes_transferred =
                      g_transfer_progress.total_bytes

\* C4: a job for which a cancel request was posted while its copy was
\* running does not resolve as succeeded with its destination file in
\* place.
C4_CancelledJobLeavesNoFile ==
    \A t \in Tasks :
        (Resolved(t) /\ Waiting("/transfer-cancel") # {}) =>
            ~(httpd[t].res = ESP_OK /\ fs[DstPath(httpd[t].req)] # Absent)

\* A snapshot whose total is known and nonzero does not exceed it.
WithinTotal(snap) ==
    snap.total_bytes # 0 => snap.bytes_transferred <= snap.total_bytes

\* C5: whenever the job is Active, the snapshot a progress poll reads has
\* bytes_transferred <= total_bytes if total_bytes is nonzero, and so has
\* every snapshot a poll has returned.
C5_ProgressWithinTotal ==
    /\ g_transfer_progress.active => WithinTotal(Snapshot)
    /\ \A t \in Tasks :
          httpd[t].rsp.uri \in {"/transfer-progress", "/status"} =>
              WithinTotal(httpd[t].rsp.snap)

\* The copy is part way through a source of known size and a progress poll
\* sent during it is waiting for its answer.
C5_Witness ==
    /\ g_transfer_progress.active
    /\ 0 < g_transfer_progress.bytes_transferred
    /\ g_transfer_progress.bytes_transferred < g_transfer_progress.total_bytes
    /\ Waiting("/transfer-progress") # {}

\* C6: while a job stays Active bytes_transferred never decreases, and when
\* copy_file reports success the snapshot is (total_bytes, total_bytes).
C6_Snapshots ==
    [][ /\ (g_transfer_progress.active /\ g_transfer_progress'.active) =>
              g_transfer_progress'.bytes_transferred >=
                  g_transfer_progress.bytes_transferred
        /\ \A t \in Tasks :
              (httpd'[t].pc = "tf_finish" /\ httpd'[t].res = ESP_OK) =>
                  g_transfer_progress'.bytes_transferred =
                      g_transfer_progress'.total_bytes ]_vars

\* The namespace or the ssid key is missing from flash.
NoCredential == ~nvs.ns \/ ~nvs.ssid

\* Configuration mode: the access point and the captive portal are up.
ConfigMode ==
    /\ main_pc = "running"
    /\ wifi_mode = "ap"
    /\ server = "portal"
    /\ ~g_wifi_configured

\* C7: a boot whose stored namespace or ssid key is missing finds
\* NotFound, never starts the station or a join, and reaches configuration
\* mode (access point and portal started, g_wifi_configured false).
C7_NotFoundEntersConfigMode ==
    /\ [][(main_pc = "init_wifi" /\ main_pc' # "init_wifi" /\ NoCredential)
            => load_err' = ESP_ERR_NVS_NOT_FOUND]_vars
    /\ [](load_err = ESP_ERR_NVS_NOT_FOUND =>
            /\ wifi_mode # "sta"
            /\ radio = "off"
            /\ join_attempts = 0
            /\ ip_regs = 0
            /\ ~g_wifi_configured)
    /\ (load_err = ESP_ERR_NVS_NOT_FOUND) ~> ConfigMode

\* Configuration mode was reached after NotFound, and a client of the
\* access point has been seen.
C7_Witness ==
    /\ load_err = ESP_ERR_NVS_NOT_FOUND
    /\ ConfigMode
    /\ evq # <<>>

\* C8: a join that set the connected bit makes g_wifi_configured true, and
\* once true it stays true with the station mode kept, whatever the radio
\* reports afterwards.
C8_ConnectedIsFinal ==
    [][ /\ (main_pc = "wait_bits" /\ main_pc' # "wait_bits"
              /\ WIFI_CONNECTED_BIT \in wifi_event_group)
            => g_wifi_configured'
        /\ g_wifi_configured => (g_wifi_configured' /\ wifi_mode' = "sta") ]_vars

\* The main application runs and a disconnect that followed the join has
\* been handled.
C8_Witness ==
    /\ g_wifi_configured
    /\ server = "main"
    /\ WIFI_FAIL_BIT \in wifi_event_group

\* C9: esp_wifi_connect is called at most once per boot, and after a failed
\* join the station is stopped for good: the controller goes on to the
\* access point with that one attempt.
C9_NoRetry ==
    /\ join_attempts <= 1
    /\ (load_err = ESP_OK /\ main_pc \notin {"init_wifi", "wait_bits"}
          /\ ~g_wifi_configured)
        => /\ join_attempts = 1
           /\ radio = "off"
           /\ wifi_mode \in {"off", "ap"}
           /\ WIFI_FAIL_BIT \in wifi_event_group

\* The join with the stored credential failed and the portal is up.
C9_Witness ==
    /\ load_err = ESP_OK
    /\ ConfigMode
    /\ join_attempts = 1

\* C10: the wait for the join always ends.
C10_JoinWaitEnds == (main_pc = "wait_bits") ~> (main_pc # "wait_bits")

\* C11: in configuration mode a save that fails is answered with the error
\* and leaves the handler where no restart follows, on both channels.
C11_FailedSaveStays ==
    [][ (ConfigMode /\ save_err' # save_err /\ save_err'.err # ESP_OK) =>
            /\ save_err'.channel = "http" =>
                  (portal'.pc = "idle" /\ portal'.rsp.status = 500)
            /\ save_err'.channel = "ble" => ble'.pc = "idle" ]_vars

\* C12: a handler that waits to restart has had the response to its
\* submission sent, and the restart is taken only by such a handler.
C12_AckBeforeRestart ==
    /\ [](portal.pc = "delay" =>
            /\ portal.rsp.uri = "/save-credentials"
            /\ portal.rsp.status = 200)
    /\ [](ble.pc = "delay" => ble.acked)
    /\ [][(main_pc # "restart" /\ main_pc' = "restart") =>
            (portal.pc = "delay" \/ ble.pc = "delay")]_vars

\* The device has restarted after a commit written over the wireless
\* channel in configuration mode, the save having succeeded.
C12_Witness ==
    /\ main_pc = "restart"
    /\ ~g_wifi_configured
    /\ g_led_state = LED_STATE_SETUP
    /\ ble.pc = "delay"
    /\ ble.acked
    /\ save_err = [channel |-> "ble", err |-> ESP_OK]

\* C13: in configuration mode, for every name, secret and outcome of the
\* store write, the two channels leave the same store and take the same
\* decision about the restart.
C13_ChannelsEquivalent ==
    ConfigMode =>
        \A s \in Ssids, p \in Secrets, fault \in NvsFaults, kept \in BOOLEAN :
            LET h == http_submit(nvs, nvs_str, s, p, fault, kept)
                b == ble_submit(nvs, nvs_str, s, p, fault, kept)
            IN  /\ h.nvs = b.nvs
                /\ h.nvs_str = b.nvs_str
                /\ h.restart = b.restart

\* C14: the portal answers a request for any other resource with 302 and
\* Location "/", and serving it changes neither the store nor the
\* controller.
C14_PortalRedirects ==
    /\ [](portal.rsp.uri \notin {"-", "/", "/save-credentials"} =>
            (portal.rsp.status = 302 /\ portal.rsp.location = "/"))
    /\ [][(portal'.rsp # portal.rsp
             /\ portal'.rsp.uri \notin {"/", "/save-credentials"}) =>
            /\ ConfigMode /\ ConfigMode'
            /\ UNCHANGED <<nvs, nvs_str, save_err, load_err, portal.pc>>]_vars

\* In configuration mode a probe for another resource has been redirected.
C14_Witness ==
    /\ ConfigMode
    /\ portal.rsp.uri = "/generate_204"
    /\ portal.rsp.status = 302
    /\ portal.rsp.location = "/"

\* C15: once g_wifi_configured is true nothing writes the store, restarts
\* the device or clears the flag.
C15_ConnectedIsTerminal ==
    [][ g_wifi_configured =>
            /\ nvs' = nvs
            /\ nvs_str' = nvs_str
            /\ main_pc' # "restart"
            /\ ble'.pc = "idle"
            /\ g_wifi_configured' ]_vars

\* copy_file returned an error other than the cancellation.
Failed(t) ==
    /\ httpd[t].res # ESP_OK
    /\ g_transfer_progress.error_msg # MSG_CANCEL

\* The handler's last step: the response and active = false.
Returns(t) == httpd[t].pc = "tf_finish" /\ httpd'[t].pc = "idle"

\* C16: the indicator is TRANSFER at the step that makes the job Active,
\* and when the handler returns it is ERROR if the job failed, else
\* CONNECTED or IDLE by the presence of the removable device.
C16_IndicatorFollowsJob ==
    [][ /\ (~g_transfer_progress.active /\ g_transfer_progress'.active) =>
              g_led_state' = LED_STATE_TRANSFER
        /\ \A t \in Tasks :
              Returns(t) =>
                  g_led_state' =
                      IF Failed(t) THEN LED_STATE_ERROR ELSE IdleLed' ]_vars

FailMsgs == {MSG_SRC, MSG_DST, MSG_WRITE}

\* C18: the step in which copy_file fails writes no chunk; the handler then
\* answers with success false and the failure's message, sets the indicator
\* to ERROR and resets active; a task that is idle leaves no job Active.
C18_FailureRecovered ==
    /\ [](\A t \in Tasks :
            httpd[t].pc \in {"idle", "tf_recv"} => ~g_transfer_progress.active)
    /\ [][ \A t \in Tasks :
            /\ (httpd[t].pc # "tf_finish" /\ httpd'[t].pc = "tf_finish"
                  /\ g_transfer_progress'.error_msg \in FailMsgs) =>
                  /\ httpd'[t].res = ESP_FAIL
                  /\ fs' = fs
                  /\ g_transfer_progress'.bytes_transferred =
                        g_transfer_progress.bytes_transferred
            /\ (Returns(t) /\ g_transfer_progress.error_msg \in FailMsgs) =>
                  /\ httpd'[t].rsp.status = 200
                  /\ ~httpd'[t].rsp.success
                  /\ httpd'[t].rsp.message = g_transfer_progress.error_msg
                  /\ g_led_state' = LED_STATE_ERROR
                  /\ ~g_transfer_progress'.active ]_vars

\* After a write failure that left a partial destination, the next
\* transfer request has passed the busy check.
C18_Witness ==
    \E t \in Tasks :
        /\ httpd[t].pc = "tf_recv"
        /\ g_transfer_progress.error_msg = MSG_WRITE
        /\ fs[<<"usb", "a.epub">>] > 0

\* C19: a job starts with the flag cleared whatever a cancel issued before
\* it left there, so its copy loop never finds the flag set and it is
\* never resolved as cancelled.
C19_IdleCancelIsNoOp ==
    /\ [][ \A t \in Tasks :
            (httpd[t].pc = "tf_recv" /\ httpd'[t].pc = "cf_open") =>
                ~g_cancel_transfer' ]_vars
    /\ [](\A t \in Tasks :
            httpd[t].pc \in {"cf_open", "cf_read", "cf_chunk", "cf_write"} =>
                ~g_cancel_transfer)
    /\ [](g_transfer_progress.error_msg # MSG_CANCEL)

\* A transfer request has passed the busy check while the flag set by a
\* cancel issued in Idle is still set.
C19_Witness ==
    \E t \in Tasks :
        /\ httpd[t].pc = "tf_recv"
        /\ httpd[t].req.body = "ok"
        /\ g_cancel_transfer
        /\ ~g_transfer_progress.active

\* C20: with the flag set, only a chunk whose check was already passed is
\* still written: the loop never goes from a check to a write, and nothing
\* grows on disk outside that one write.
C20_CancelAtChunkBoundary ==
    [][ \A t \in Tasks :
          /\ (g_cancel_transfer /\ httpd[t].pc = "cf_chunk") =>
                httpd'[t].pc \in {"cf_chunk", "tf_finish"}
          /\ (g_cancel_transfer
                /\ httpd[t].pc \in {"cf_read", "cf_chunk", "tf_finish"}) =>
                \A p \in Paths : fs'[p] <= fs[p] ]_vars

\* The flag was set while a chunk was being written; that chunk is on
\* disk and the loop has stopped at the next check, removing the file.
C20_Witness ==
    \E t \in Tasks :
        /\ g_cancel_transfer
        /\ httpd[t].pc = "tf_finish"
        /\ g_transfer_progress.error_msg = MSG_CANCEL
        /\ g_transfer_progress.bytes_transferred = COPY_BUFFER
        /\ fs[DstPath(httpd[t].req)] = Absent

\* C21: a progress poll or a cancel request sent while copy_file was
\* running has been dispatched by the time copy_file returns.
C21_ServedDuringCopy ==
    \A t \in Tasks :
        Resolved(t) =>
            /\ Waiting("/transfer-progress") = {}
            /\ Waiting("/transfer-cancel") = {}

\* C22: a job whose source root is the removable device, opened while no
\* device is attached, fails with the source error in the step that opens
\* it: nothing on disk changes and bytes_transferred stays 0, and the
\* handler reports that failure.
C22_SourceUnavailable ==
    [][ \A t \in Tasks :
          /\ (httpd[t].pc = "cf_open" /\ httpd[t].req.source = "usb"
                /\ ~usb_attached) =>
                /\ fs' = fs
                /\ g_transfer_progress'.bytes_transferred = 0
                /\ httpd'[t].pc # "cf_open" =>
                      /\ httpd'[t].pc = "tf_finish"
                      /\ httpd'[t].res = ESP_FAIL
                      /\ g_transfer_progress'.error_msg = MSG_SRC
          /\ (Returns(t) /\ g_transfer_progress.error_msg = MSG_SRC) =>
                /\ ~httpd'[t].rsp.success
                /\ httpd'[t].rsp.message = MSG_SRC
                /\ fs' = fs
                /\ g_transfer_progress'.bytes_transferred = 0 ]_vars

\* The device was detached with a.epub on it; a transfer of that file from
\* the device has failed at the source, and the copy on the card is whole.
C22_Witness ==
    \E t \in Tasks :
        /\ ~usb_attached
        /\ httpd[t].pc = "tf_finish"
        /\ httpd[t].req.source = "usb"
        /\ httpd[t].req.destination = "sd"
        /\ g_transfer_progress.error_msg = MSG_SRC
        /\ g_transfer_progress.bytes_transferred = 0
        /\ fs[<<"usb", "a.epub">>] > 0
        /\ fs[<<"sd", "a.epub">>] > 0

\* A stream that task t opened on the removable device was lost to a
\* detach or an unmount after copy_file had opened it.
StreamLost(t) ==
    \/ httpd[t].req.source = "usb" /\ ~httpd[t].src_ok
    \/ httpd[t].req.destination = "usb" /\ ~httpd[t].dst_ok

\* C23: a job that lost a stream on the removable device while it was
\* Active does not resolve as succeeded, unless every byte of the source
\* had been copied by then.
C23_DetachFailsTransfer ==
    \A t \in Tasks :
        (Resolved(t) /\ httpd[t].res = ESP_OK /\ StreamLost(t)) =>
            g_transfer_progress.bytes_transferred =
                g_transfer_progress.total_bytes

\* C24: a job that is Active is reset; the reset is the last step of the
\* handler, taken with the result in the response sent to the requester;
\* and no job is Active while the serving task is outside the handler or
\* before the admission.
C24_JobReturnsToIdle ==
    /\ g_transfer_progress.active ~> ~g_transfer_progress.active
    /\ [][ (g_transfer_progress.active /\ ~g_transfer_progress'.active) =>
              \E t \in Tasks :
                  /\ Returns(t)
                  /\ httpd'[t].rsp.uri = "/transfer-file"
                  /\ httpd'[t].rsp.status = 200
                  /\ httpd'[t].rsp.success = (httpd[t].res = ESP_OK)
                  /\ httpd'[t].rsp.message # MSG_NONE ]_vars
    /\ [](\A t \in Tasks :
            httpd[t].pc \in {"idle", "tf_recv"} => ~g_transfer_progress.active)

\* A cancelled job has been reported to the requester and reset: the
\* serving task is back outside the handler with the job not Active.
C24_Witness ==
    \E t \in Tasks :
        /\ httpd[t].pc = "idle"
        /\ httpd[t].rsp.uri = "/transfer-file"
        /\ httpd[t].rsp.status = 200
        /\ httpd[t].rsp.message = MSG_CANCEL
        /\ ~g_transfer_progress.active
        /\ g_transfer_progress.bytes_transferred > 0

\* Job records a polling handler may find.
JobRecords ==
    [filename : Names,
     bytes_transferred : {0, COPY_BUFFER},
     total_bytes : {0, MaxChunks * COPY_BUFFER},
     active : BOOLEAN,
     success : {FALSE},
     error_msg : {MSG_NONE}]

PollRequest(uri) == Req(uri, "-", "-", "-", "-")

\* C25: for every job record, the progress poll answers 404 with no
\* snapshot if the job is not Active and 200 with the record's filename
\* and counters if it is, and /status carries the three fields exactly when
\* it says transfer_active; each answer the server gives is the one for the
\* job record as it is when the handler runs.
C25_PollReflectsJob ==
    /\ [](\A p \in JobRecords :
            LET a == ProgressAnswer(PollRequest("/transfer-progress"), p)
                b == StatusAnswer(PollRequest("/status"), p)
            IN  /\ a.status = 404 <=> ~p.active
                /\ a.status = 200 <=> p.active
                /\ a.snap = (IF p.active THEN SnapshotOf(p) ELSE NoSnap)
                /\ b.status = 200
                /\ b.active = p.active
                /\ b.snap = (IF p.active THEN SnapshotOf(p) ELSE NoSnap))
    /\ [][ \A t \in Tasks :
            (httpd'[t].rsp # httpd[t].rsp
               /\ httpd'[t].rsp.uri \in {"/transfer-progress", "/status"}) =>
                /\ httpd'[t].rsp.snap =
                      (IF g_transfer_progress.active THEN Snapshot ELSE NoSnap)
                /\ httpd'[t].rsp.uri = "/transfer-progress" =>
                      httpd'[t].rsp.status =
                          (IF g_transfer_progress.active THEN 200 ELSE 404)
                /\ httpd'[t].rsp.uri = "/status" =>
                      httpd'[t].rsp.active = g_transfer_progress.active ]_vars

\* A progress poll sent while copy_file was running has been answered, with
\* 404, the job no longer being Active.
C25_Witness ==
    \E t \in Tasks :
        /\ httpd[t].rsp.uri = "/transfer-progress"
        /\ httpd[t].rsp.job = "Copying"
        /\ httpd[t].rsp.status = 404
        /\ httpd[t].rsp.snap = NoSnap
        /\ ~g_transfer_progress.active
        /\ g_transfer_progress.bytes_transferred > 0

\* The listing request for the removable device.
UsbListing == Req("/list-files", "-", "-", "-", "usb")

\* The empty array, sent without a call of opendir.
EmptyUnopened(a) ==
    /\ a.status = 200
    /\ a.list = {}
    /\ a.opened = "-"

\* C26: with no device attached ebook_reader_connected is false, and then
\* the answer to type=usb is the empty array with no directory opened, in
\* the handler of either firmware and in every answer the server gives.
C26_UsbListingWhenDetached ==
    /\ [](~usb_attached => ~ebook_reader_connected)
    /\ [](~usb_attached =>
            \A dir_ok \in BOOLEAN, mounted \in BOOLEAN :
                /\ EmptyUnopened(ListFiles(UsbListing, ebook_reader_connected,
                                           mounted, dir_ok, fs))
                /\ EmptyUnopened(ListFilesOld(UsbListing, ebook_reader_connected,
                                              mounted, dir_ok, fs)))
    /\ [][ \A t \in Tasks :
            (httpd'[t].rsp # httpd[t].rsp /\ httpd'[t].rsp.uri = "/list-files"
               /\ httpd'[t].rsp.query = "usb" /\ ~usb_attached) =>
                EmptyUnopened(httpd'[t].rsp) ]_vars

\* The device was detached with a.epub on it, and a listing of the device
\* has then been answered with the empty array.
C26_Witness ==
    \E t \in Tasks :
        /\ ~usb_attached
        /\ fs[<<"usb", "a.epub">>] > 0
        /\ httpd[t].rsp.uri = "/list-files"
        /\ httpd[t].rsp.query = "usb"
        /\ EmptyUnopened(httpd[t].rsp)

\* The renderer's write at the end of the blink sequence.
Reverts == led.pc = "blink" /\ led'.pc = "switch"

\* C27: the indicator does not stay in EJECT; the renderer leaves it after
\* the two blinks, for CONNECTED if the device flag is set and for IDLE if
\* it is not.
C27_FeedbackExpires ==
    /\ (g_led_state = LED_STATE_EJECT) ~> (g_led_state # LED_STATE_EJECT)
    /\ [][ Reverts =>
              /\ led.j = BLINKS
              /\ led.frame = FRAME_EJECT
              /\ g_led_state' = IdleLed' ]_vars

\* C28: a commit whose save succeeded leaves in the store the name and the
\* secret that were submitted, and the load of the next boot (the restart
\* that follows the commit has been taken) returns ESP_OK with those two
\* strings in its buffers.
C28_SaveLoadRoundTrip ==
    [][ /\ (ble.pc = "idle" /\ ble'.pc = "delay" /\ save_err'.err = ESP_OK) =>
              /\ nvs'.ns /\ nvs'.ssid /\ nvs'.pass
              /\ nvs_str' = [ssid |-> ble.wifi_ssid, pass |-> ble.wifi_password]
        /\ (load_err = "-" /\ load_err' # "-" /\ save_err.err = ESP_OK
              /\ ble.pc = "idle") =>
              /\ load_err' = ESP_OK
              /\ loaded' = [ssid |-> nvs_str.ssid, password |-> nvs_str.pass] ]_vars

\* A step of the render loop inside an iteration whose snapshot is not
\* LED_STATE_EJECT (the snapshot itself, or the case it selected).
OtherIteration ==
    /\ led' # led
    /\ \/ led.pc = "switch" /\ g_led_state # LED_STATE_EJECT
       \/ led.pc = "render"

\* C29: only the iteration that read LED_STATE_EJECT writes g_led_state; an
\* iteration with any other snapshot leaves it alone. Every iteration takes
\* one snapshot, at its switch, and whatever it draws afterwards is the frame
\* of that snapshot, also when g_led_state has changed since.
C29_OnlyFeedbackExpires ==
    [][ /\ OtherIteration => g_led_state' = g_led_state
        /\ (led.pc = "switch" /\ led' # led) => led'.snap = g_led_state
        /\ (led.pc # "switch" /\ led' # led) =>
              /\ led'.snap = led.snap
              /\ led'.frame = Frame(led.snap, led.frame)
        /\ (g_led_state' # g_led_state /\ led' # led) =>
              /\ led.snap = LED_STATE_EJECT
              /\ led.j = BLINKS ]_vars

\* The device was attached between the snapshot and the drawing: the loop
\* is about to draw the frame of the state it read.
C29_Witness ==
    /\ led.pc = "render"
    /\ led.snap = LED_STATE_IDLE
    /\ g_led_state = LED_STATE_CONNECTED
    /\ led.frame = "breathing white"

\* The source bytes whose fwrite has returned success in task t: what fread
\* has delivered so far, less the buffer in hand while it is unwritten and
\* less the buffer that was dropped when copy_file returned ESP_FAIL.
WrittenBytes(t) ==
    IF httpd[t].pc \in {"cf_chunk", "cf_write"}
         \/ (httpd[t].pc = "tf_finish" /\ httpd[t].res = ESP_FAIL)
    THEN httpd[t].pos - httpd[t].bytes_read
    ELSE httpd[t].pos

\* C30: from the opening of the files to the reset of the job,
\* bytes_transferred is the number of source bytes whose write succeeded.
\* Accepting a transfer sets it to 0, a successful write adds the buffer
\* just written, and a failed write or a cancellation adds nothing.
C30_CountsWrittenBytes ==
    /\ [](\A t \in Tasks :
            httpd[t].pc \in {"cf_read", "cf_chunk", "cf_write", "tf_finish"} =>
               g_transfer_progress.bytes_transferred = WrittenBytes(t))
    /\ [][\A t \in Tasks :
            /\ (httpd[t].pc = "tf_recv" /\ httpd'[t].pc = "cf_open") =>
                  g_transfer_progress'.bytes_transferred = 0
            /\ (httpd[t].pc = "cf_write" /\ httpd'[t].pc = "cf_read") =>
                  g_transfer_progress'.bytes_transferred =
                     g_transfer_progress.bytes_transferred + httpd[t].bytes_read
            /\ (httpd[t].pc \in {"cf_chunk", "cf_write"}
                  /\ httpd'[t].pc = "tf_finish") =>
                  g_transfer_progress'.bytes_transferred =
                     g_transfer_progress.bytes_transferred ]_vars

\* The second buffer was read and then dropped, by a cancellation or by a
\* failed write: the count is the one buffer that was written.
C30_Witness ==
    \E t \in Tasks :
        /\ httpd[t].pc = "tf_finish"
        /\ httpd[t].res = ESP_FAIL
        /\ g_transfer_progress.error_msg \in {MSG_CANCEL, MSG_WRITE}
        /\ httpd[t].pos = 2 * COPY_BUFFER
        /\ g_transfer_progress.bytes_transferred = COPY_BUFFER

\* C32: the write-back that ends the blink sequence keeps an indicator
\* state another task wrote during the sequence: if g_led_state is no longer
\* LED_STATE_EJECT when the sequence ends, it is unchanged by the write-back.
C32_WriteBackKeepsUpdate ==
    [][ (Reverts /\ g_led_state # LED_STATE_EJECT) =>
            g_led_state' = g_led_state ]_vars

\* copy_file is running in task t.
InFlight(t) == httpd[t].pc \in {"cf_open", "cf_read", "cf_chunk", "cf_write"}

\* C33: while the copy of an Active job is in flight the indicator state is
\* LED_STATE_TRANSFER; no attach or detach notification and no eject press
\* changes it.
C33_IndicatorDuringCopy ==
    (\E t \in Tasks : InFlight(t)) => g_led_state = LED_STATE_TRANSFER

\* C34: whenever ebook_reader_connected is set the removable file system is
\* mounted: the flag is clear after a failed mount and after an eject.
C34_FlagImpliesMounted ==
    ebook_reader_connected => usb_mounted

\* A step that calls vfs_msc_unmount: the detach notification, or the eject
\* task finding the flag set (the only writer of LED_STATE_EJECT).
Unmounts ==
    \/ usb_attached /\ ~usb_attached'
    \/ /\ ebook_reader_connected
       /\ g_led_state # LED_STATE_EJECT
       /\ g_led_state' = LED_STATE_EJECT

\* C35: the removable file system is unmounted only while it is mounted, so
\* never twice without a successful mount in between.
C35_UnmountOnlyMounted ==
    [][Unmounts => usb_mounted]_vars

\* The counter has wrapped in this step of the renderer: it went up and came
\* out lower, or went down and came out higher.
Wraps ==
    \/ led.increasing /\ led'.brightness < led.brightness
    \/ ~led.increasing /\ led'.brightness > led.brightness

\* C36: the 8-bit brightness counter never wraps around, whatever the order
\* in which the indicator moves between the breathing and pulsing patterns.
C36_BrightnessNeverWraps ==
    [][~Wraps]_vars

\* app_main's last step in normal operation.
BootCompletes == main_pc = "app_start" /\ main_pc' = "running"

\* C37: an Error state set during boot is still the indicator state when
\* boot completes, and boot does not end showing LED_STATE_IDLE with a
\* device present.
C37_BootKeepsError ==
    [][BootCompletes =>
          /\ g_led_state = LED_STATE_ERROR => g_led_state' = LED_STATE_ERROR
          /\ ebook_reader_connected => g_led_state' # LED_STATE_IDLE]_vars

\* The commit on the wireless channel ran save_wifi_credentials and the
\* call returned an error.
FailedSave == ble.pc = "idle" /\ ble'.pc = "delay" /\ save_err'.err # ESP_OK

\* The credential in the store: what the two keys hold, "-" for a key that
\* is not there.
Stored ==
    [ssid |-> IF nvs.ssid THEN nvs_str.ssid ELSE "-",
     password |-> IF nvs.pass THEN nvs_str.pass ELSE "-"]

\* C38: a save that returns an error leaves the stored credential as it
\* was, and no load returns a submitted network name together with the
\* secret that was stored before.
C38_FailedSaveKeepsStore ==
    /\ [][FailedSave => Stored' = Stored]_vars
    /\ [](~(loaded.ssid \in Ssids /\ loaded.password = "homepw"))

\* C39: the device goes down, by esp_restart or by esp_deep_sleep_start,
\* only while no transfer job is Active.
C39_NoPowerDownDuringTransfer ==
    [][(~Halted /\ Halted') => ~g_transfer_progress.active]_vars

====
